---- MODULE Spec2Model ----
(***************************************************************************)
(* Model of src/main.py: the submarine arrival reminder.                   *)
(*                                                                         *)
(* The program is one asyncio event loop.  Its coroutines are the polling  *)
(* loop schedule_runner and the slash-command handlers add, list_cmd,      *)
(* cancel, defer and edit_cmd.  All of them share client.store, a          *)
(* TaskStore holding the dict `tasks` (id -> Task object) and mirroring it *)
(* to the file DATA_FILE with save().  A coroutine runs without            *)
(* interruption between two awaits, so every action below is the code      *)
(* between two suspension points of one coroutine.                         *)
(*                                                                         *)
(* Time is counted in minutes.  Text is a sequence of one-character        *)
(* strings; "<1>", "<h>" stand for the full-width forms of 1 and h and     *)
(* "<fun>" for the kanji minute marker.                                    *)
(***************************************************************************)
EXTENDS Integers, Sequences, FiniteSets, TLC

VARIABLES
    clock,      \* wall clock read by datetime.now()
    tasks,      \* keys of client.store.tasks
    obj,        \* the Task objects, by id (an object outlives its dict entry)
    disk,       \* content of DATA_FILE: a snapshot, or Corrupt
    proc,       \* "up" | "down" | "failed": the process
    pc,         \* schedule_runner: "sleep" | "sink" | "dead"
    now,        \* schedule_runner's local `now`
    changed,    \* schedule_runner's local `changed`
    lst,        \* tasks of the tick's list(...) not yet visited
    cur,        \* the task whose send_arrival_notice is awaited (0: none)
    created,    \* history: the id the last /sub add announced as registered (0: none)
    sunk,       \* history: calls of send_arrival_notice, per id
    marked,     \* history: executions of t.done_arrive=True, per id
    cancelOk,   \* history: ids whose cancel answered with success
    lateSink,   \* history: ids handed to the sink after their cancel succeeded
    raised,     \* history: ids whose send_arrival_notice raised
    startDue,   \* history: ids in the store and due when the current tick began
    flushes,    \* history: save() calls the current tick has made
    lastGood,   \* history: the last snapshot save() wrote completely
    boots,      \* history: how many times the process has been started
    loop2,      \* a second schedule_runner task: its pc, now, changed, lst, cur
    arg,        \* the argument of a text function called on its own
    ret         \* what that call returned

vars == <<clock, tasks, obj, disk, proc, pc, now, changed, lst, cur, created,
          sunk, marked, cancelOk, lateSink, raised, startDue, flushes, lastGood,
          boots, loop2, arg, ret>>

\* ---------------------------------------------------------------- bounds
NumIds == 2
MaxTime == 1
MaxBoots == 2

Ids == 1..NumIds
Times == 0..MaxTime

\* ------------------------------------------------------------------ text
Digits == {"0", "1", "2", "3", "4", "5", "6", "7", "8", "9"}

DigitVal(c) ==
    CASE c = "0" -> 0 [] c = "1" -> 1 [] c = "2" -> 2 [] c = "3" -> 3
      [] c = "4" -> 4 [] c = "5" -> 5 [] c = "6" -> 6 [] c = "7" -> 7
      [] c = "8" -> 8 [] OTHER -> 9

\* unicodedata.normalize("NFKC", s), one character
NfkcChar(c) ==
    CASE c = "<1>" -> "1" [] c = "<h>" -> "h" [] OTHER -> c

\* str.lower(), one character
LowerChar(c) ==
    CASE c = "H" -> "h" [] c = "M" -> "m" [] c = "A" -> "a" [] c = "P" -> "p"
      [] OTHER -> c

Nfkc(s) == [i \in 1..Len(s) |-> NfkcChar(s[i])]

Lower(s) == [i \in 1..Len(s) |-> LowerChar(s[i])]

\* str.strip(): leading and trailing blanks removed
RECURSIVE LStrip(_)
LStrip(s) == IF s # <<>> /\ Head(s) = " " THEN LStrip(Tail(s)) ELSE s

RECURSIVE RStrip(_)
RStrip(s) ==
    IF s # <<>> /\ s[Len(s)] = " " THEN RStrip(SubSeq(s, 1, Len(s) - 1)) ELSE s

Strip(s) == RStrip(LStrip(s))

\* s.startswith(p, i), i counted from 0 as in Python
StartsWithAt(s, p, i) ==
    /\ i + Len(p) <= Len(s)
    /\ SubSeq(s, i + 1, i + Len(p)) = p

\* str.replace(pat, rep): non-overlapping occurrences, left to right
RECURSIVE Replace(_, _, _)
Replace(s, pat, rep) ==
    IF Len(s) < Len(pat) THEN s
    ELSE IF StartsWithAt(s, pat, 0)
         THEN rep \o Replace(SubSeq(s, Len(pat) + 1, Len(s)), pat, rep)
         ELSE <<Head(s)>> \o Replace(Tail(s), pat, rep)

\* int(buf) for a run of decimal digits
RECURSIVE IntOf(_)
IntOf(buf) ==
    IF buf = <<>> THEN 0
    ELSE 10 * IntOf(SubSeq(buf, 1, Len(buf) - 1)) + DigitVal(buf[Len(buf)])

ParseError == [err |-> TRUE, minutes |-> 0]

\* the while loop of parse_delta, lines 41-54
RECURSIVE DeltaLoop(_, _, _, _, _, _)
DeltaLoop(s, i, h, m, buf, last) ==
    IF i >= Len(s)
    THEN \* line 55-56
         [err |-> FALSE,
          minutes |-> 60 * h + m
                      + (IF buf # <<>> /\ last # "m" THEN IntOf(buf) ELSE 0)]
    ELSE LET ch == s[i + 1] IN
         IF ch \in Digits THEN DeltaLoop(s, i + 1, h, m, Append(buf, ch), last)
         ELSE IF ch = "h"
         THEN IF buf = <<>> THEN ParseError
              ELSE DeltaLoop(s, i + 1, h + IntOf(buf), m, <<>>, "h")
         ELSE IF StartsWithAt(s, <<"m", "i", "n">>, i)
         THEN IF buf = <<>> THEN ParseError
              ELSE DeltaLoop(s, i + 3, h, m + IntOf(buf), <<>>, "m")
         ELSE IF ch = "m"
         THEN IF buf = <<>> THEN ParseError
              ELSE DeltaLoop(s, i + 1, h, m + IntOf(buf), <<>>, "m")
         ELSE IF ch \in {" ", ":", "/", "+"}
         THEN DeltaLoop(s, i + 1, h, m, buf, last)
         ELSE ParseError

\* parse_delta with the replacements of line 39 in another order: "minute"
\* is folded before "minutes"
parse_delta_MinuteFirst(s) ==
    LET a == Lower(Strip(Nfkc(s)))
        b == Replace(a, <<"m", "i", "n", "u", "t", "e">>, <<"m", "i", "n">>)
        c == Replace(b, <<"m", "i", "n", "u", "t", "e", "s">>, <<"m", "i", "n">>)
        d == Replace(c, <<"<fun>">>, <<"m", "i", "n">>)
    IN DeltaLoop(d, 0, 0, 0, <<>>, "none")

\* parse_delta: the duration in minutes, or the ValueError
parse_delta(s) ==
    LET a == Lower(Strip(Nfkc(s)))
        b == Replace(a, <<"m", "i", "n", "u", "t", "e", "s">>, <<"m", "i", "n">>)
        c == Replace(b, <<"m", "i", "n", "u", "t", "e">>, <<"m", "i", "n">>)
        d == Replace(c, <<"<fun>">>, <<"m", "i", "n">>)
    IN DeltaLoop(d, 0, 0, 0, <<>>, "none")

alexander == <<"a", "l", "e", "x", "a", "n", "d", "e", "r">>
pandemonium == <<"p", "a", "n", "d", "e", "m", "o", "n", "i", "u", "m">>
Alexander == <<"A", "l", "e", "x", "a", "n", "d", "e", "r">>
Pandemonium == <<"P", "a", "n", "d", "e", "m", "o", "n", "i", "u", "m">>

\* FC_ALIASES
FC_ALIASES(canon) ==
    IF canon = alexander
    THEN {SubSeq(alexander, 1, n) : n \in {1, 2, 3, 4, 6, 9}}
    ELSE {SubSeq(pandemonium, 1, n) : n \in {1, 2, 3, 4, 5, 7, 11}}

\* normalize_fc
normalize_fc(s) ==
    IF s = <<>> THEN <<>>
    ELSE LET t == Lower(Strip(Nfkc(s))) IN
         IF t = alexander \/ t \in FC_ALIASES(alexander) THEN Alexander
         ELSE IF t = pandemonium \/ t \in FC_ALIASES(pandemonium) THEN Pandemonium
         ELSE IF StartsWithAt(alexander, t, 0) THEN Alexander
         ELSE IF StartsWithAt(pandemonium, t, 0) THEN Pandemonium
         ELSE s

\* normalize_boat: both branches of line 35 return t
normalize_boat(s) == Strip(Nfkc(s))

\* ------------------------------------------------------------- the store
Guilds == {1, 2}

\* the guild a stored task was registered in
GuildOf(i) == 1 + (i % 2)
Channels == {1, 2}

\* client.get_channel(id) is a discord.TextChannel (line 112-113): channel 1
\* is a text channel of the guild, channel 2 is not resolvable to one.
IsTextChannel(c) == c = 1

\* a Task (lines 65-75)
Task(id, gid, ch, fcv, boatv, notev, arr) ==
    [id |-> id, guild_id |-> gid, channel_id |-> ch, user_id |-> 1,
     fc |-> fcv, boat |-> boatv, note |-> notev,
     arrive_utc |-> arr, done_arrive |-> FALSE]

\* json.dump({tid: vars(t) ...}) of line 87: every field of every task
Snapshot(T, O) == [i \in T |-> O[i]]

GoodFile(T, O) == [ok |-> TRUE, snap |-> Snapshot(T, O)]

\* DATA_FILE after open(path, "w") truncated it and the dump did not finish
Corrupted == [ok |-> FALSE, snap |-> Snapshot({}, <<>>)]

\* What a handler works on: the store, the tick's locals and the history,
\* with exc = an exception is propagating and fl = what the file system does
\* to this handler's save(): "ok", "open" (open() raises), "write" (the dump
\* raises after the truncation) or "crash" (the process dies in the dump).
Frame(fl) ==
    [tasks |-> tasks, obj |-> obj, disk |-> disk, lastGood |-> lastGood,
     pc |-> pc, now |-> now, changed |-> changed, lst |-> lst, cur |-> cur,
     sunk |-> sunk, marked |-> marked, lateSink |-> lateSink,
     flushes |-> flushes, exc |-> FALSE, fl |-> fl]

\* TaskStore.save
Save(s) ==
    IF s.exc THEN s
    ELSE IF s.fl = "ok"
    THEN [s EXCEPT !.disk = GoodFile(s.tasks, s.obj),
                   !.lastGood = Snapshot(s.tasks, s.obj),
                   !.flushes = @ + 1]
    ELSE IF s.fl = "open" THEN [s EXCEPT !.exc = TRUE]
    ELSE [s EXCEPT !.disk = Corrupted, !.exc = TRUE]

\* TaskStore.add
StoreAdd(s, t) ==
    Save([s EXCEPT !.tasks = @ \cup {t.id}, !.obj[t.id] = t])

\* TaskStore.remove
Remove(s, tid) ==
    IF s.exc THEN s
    ELSE IF tid \in s.tasks THEN Save([s EXCEPT !.tasks = @ \ {tid}]) ELSE s

\* TaskStore.by_guild
by_guild(gid) == {i \in tasks : obj[i].guild_id = gid}

\* list(client.store.tasks.values()): the dict keeps the order of the file
RECURSIVE ListOf(_)
ListOf(T) ==
    IF T = {} THEN <<>>
    ELSE LET m == CHOOSE x \in T : \A y \in T : x <= y
         IN <<m>> \o ListOf(T \ {m})

\* --------------------------------------------------------- the scheduler
\* line 115: t.done_arrive=True; changed=True
MarkDone(s, t) ==
    [s EXCEPT !.obj[t].done_arrive = TRUE, !.changed = TRUE,
              !.marked[t] = @ + 1]

\* line 116 dropped: a delivered task stays in the dict
Line116Skipped(s, t) == s

\* line 116: if t.done_arrive: client.store.remove(t.id)
Line116(s, t) == IF s.obj[t].done_arrive THEN Remove(s, t) ELSE s

\* line 111 testing the times the tasks had when the tick began instead of
\* the Task objects of the dict
DueAtTickStart(s, t) ==
    /\ ~s.obj[t].done_arrive
    /\ IF s.pc = "sink" THEN t \in startDue ELSE s.now >= s.obj[t].arrive_utc

\* line 111: not t.done_arrive and now >= t.arrive_utc
Due(s, t) == ~s.obj[t].done_arrive /\ s.now >= s.obj[t].arrive_utc

\* lines 110-118 from the task at the head of l up to the next await: the
\* await of send_arrival_notice (pc "sink"), the sleep at the end of the tick
\* (pc "sleep"), or an exception leaving schedule_runner (pc "dead").
RECURSIVE Loop(_, _, _)
Loop(l, s, cancelled) ==
    IF s.exc THEN [s EXCEPT !.pc = "dead", !.lst = <<>>, !.cur = 0]
    ELSE IF l = <<>>
    THEN LET e == IF s.changed THEN Save(s) ELSE s
         IN  [e EXCEPT !.pc = IF e.exc THEN "dead" ELSE "sleep",
                       !.lst = <<>>, !.cur = 0]
    ELSE LET t == Head(l) IN
         IF Due(s, t)
         THEN IF IsTextChannel(s.obj[t].channel_id)
              THEN [s EXCEPT !.pc = "sink", !.cur = t, !.lst = Tail(l),
                             !.sunk[t] = @ + 1,
                             !.lateSink = @ \cup ({t} \cap cancelled)]
              ELSE Loop(Tail(l), Line116(MarkDone(s, t), t), cancelled)
         ELSE Loop(Tail(l), Line116(s, t), cancelled)

\* the new state after a handler ran to its next await, leaving frame r
Commit(r) ==
    /\ tasks' = r.tasks /\ obj' = r.obj /\ disk' = r.disk
    /\ lastGood' = r.lastGood
    /\ pc' = r.pc /\ now' = r.now /\ changed' = r.changed
    /\ lst' = r.lst /\ cur' = r.cur
    /\ sunk' = r.sunk /\ marked' = r.marked /\ lateSink' = r.lateSink
    /\ flushes' = r.flushes
    /\ proc' = IF r.exc /\ r.fl = "crash" THEN "down" ELSE proc

\* the tick's own count of flushes is not touched by a command
CommitCmd(r) == Commit([r EXCEPT !.flushes = flushes])

\* schedule_runner wakes from asyncio.sleep(5): lines 108-110 and the loop
TickStart(fl) ==
    /\ proc = "up" /\ pc = "sleep"
    /\ LET s0 == [Frame(fl) EXCEPT !.now = clock, !.changed = FALSE,
                                   !.flushes = 0]
       IN  Commit(Loop(ListOf(tasks), s0, cancelOk))
    /\ startDue' = {i \in tasks : ~obj[i].done_arrive /\ clock >= obj[i].arrive_utc}
    /\ UNCHANGED <<loop2, arg, ret, boots, clock, created, cancelOk, raised>>

\* send_arrival_notice returns: lines 115-116 for the task, then the loop
SinkReturn(fl) ==
    /\ proc = "up" /\ pc = "sink"
    /\ Commit(Loop(lst, Line116(MarkDone(Frame(fl), cur), cur), cancelOk))
    /\ UNCHANGED <<loop2, arg, ret, boots, clock, created, cancelOk, raised, startDue>>

\* channel.send raises (line 103): nothing catches it in schedule_runner
SinkRaise ==
    /\ proc = "up" /\ pc = "sink"
    /\ pc' = "dead" /\ lst' = <<>> /\ cur' = 0
    /\ raised' = raised \cup {cur}
    /\ UNCHANGED <<loop2, arg, ret, boots, clock, tasks, obj, disk, proc, now, changed, created, sunk,
                   marked, cancelOk, lateSink, startDue, flushes,
                   lastGood>>

\* ----------------------------------------------------------- the commands
\* An Optional[str] argument of a command
None == [some |-> FALSE, v |-> <<>>]
Some(x) == [some |-> TRUE, v |-> x]

\* `if duration:` - given and not the empty string
Truthy(o) == o.some /\ o.v # <<>>

\* The arrive argument: a text that strptime("%Y-%m-%d %H:%M") accepts,
\* denoting the JST minute t, or a text it rejects (t = -1).
NoArrive == [some |-> FALSE, t |-> 0]
ArriveAt(t) == [some |-> TRUE, t |-> t]
BadArrive == [some |-> TRUE, t |-> -1]

\* datetime.strptime(...).replace(tzinfo=JST) ... .timestamp(), lines 146, 236
parse_arrive(a) == [err |-> a.t < 0, t |-> a.t]

Meta0 == <<None, None, None>>
Meta1 == <<Some(<<"a">>), Some(<<" ", "<1>">>), Some(<<"n">>)>>

\* the calls of /sub add tried: <<duration, arrive, (fc, boat, note), the
\* invoking channel is a text channel>>
AddCalls ==
    {<<Some(<<"1">>), NoArrive, Meta1, TRUE>>,
     <<None, ArriveAt(0), Meta0, TRUE>>,
     <<Some(<<"x">>), NoArrive, Meta0, TRUE>>,
     <<None, BadArrive, Meta0, TRUE>>,
     <<Some(<<>>), NoArrive, Meta0, TRUE>>,
     <<Some(<<"1">>), NoArrive, Meta0, FALSE>>}

\* the delta texts of /sub defer tried
DeferArgs == {<<"1">>, <<"0", "m", "i", "n">>, <<"x">>}

\* the calls of /sub edit tried: <<duration, arrive, (fc, boat, note)>>
EditCalls ==
    {<<Some(<<"1">>), NoArrive, Meta0>>,
     <<Some(<<"x">>), NoArrive, Meta1>>,
     <<None, ArriveAt(0), Meta0>>,
     <<None, BadArrive, Meta1>>,
     <<None, NoArrive, Meta1>>}

MaxArrive == MaxTime + 1

\* What /sub add answers, lines 140-150 and 169: "notext", "exc" (parse_delta
\* raised), "badarrive", "nospec" or "ok" (the embed of line 159).
AddReply(duration, arrive, textch) ==
    IF ~textch THEN "notext"
    ELSE IF Truthy(duration)
         THEN (IF parse_delta(duration.v).err THEN "exc" ELSE "ok")
    ELSE IF arrive.some
         THEN (IF parse_arrive(arrive).err THEN "badarrive" ELSE "ok")
    ELSE "nospec"

\* lines 143-158 of add: the Task it builds for id tid
AddTask(duration, arrive, meta, chid, tid) ==
    LET fc_name == normalize_fc(Strip(IF meta[1].some /\ meta[1].v # <<>>
                                       THEN meta[1].v ELSE <<>>))
        boat_name == normalize_boat(Strip(IF meta[2].some /\ meta[2].v # <<>>
                                           THEN meta[2].v ELSE <<>>))
    IN  Task(tid, GuildOf(tid), chid, fc_name, boat_name,
             IF meta[3].some THEN meta[3].v ELSE <<>>,
             IF Truthy(duration) THEN clock + parse_delta(duration.v).minutes
             ELSE parse_arrive(arrive).t)

\* what lines 159-169 of add do to the store with the Task t they announce
AddAnnounce(s, t) == s

\* /sub add, lines 136-171 (the handler ends with the followup of line 169)
add(duration, arrive, meta, textch, tid) ==
    /\ proc = "up"
    /\ LET ok == AddReply(duration, arrive, textch) = "ok"
           t == AddTask(duration, arrive, meta, 1, tid)
       IN  /\ created' = IF ok THEN tid ELSE 0
           /\ CommitCmd(IF ok THEN AddAnnounce(Frame("ok"), t) ELSE Frame("ok"))
    /\ UNCHANGED <<loop2, arg, ret, boots, clock, cancelOk, raised, startDue>>

\* /sub list, lines 175-204: the tasks shown
list_cmd(gid) ==
    /\ proc = "up"
    /\ by_guild(gid) \subseteq tasks
    /\ UNCHANGED vars

\* What /sub cancel answers, lines 210-213
CancelReply(id, fl) ==
    IF id \notin tasks THEN "notfound"
    ELSE IF Remove(Frame(fl), id).exc THEN "exc" ELSE "ok"

\* /sub cancel, lines 209-213
cancel(id, fl) ==
    /\ proc = "up"
    /\ CommitCmd(IF id \in tasks THEN Remove(Frame(fl), id) ELSE Frame(fl))
    /\ cancelOk' = IF CancelReply(id, fl) = "ok" THEN cancelOk \cup {id}
                   ELSE cancelOk
    /\ UNCHANGED <<loop2, arg, ret, boots, clock, created, raised, startDue>>

\* line 221 without its client.store.save()
DeferTaskUnsaved(s, id, minutes) ==
    [s EXCEPT !.obj[id].arrive_utc = @ + minutes]

\* line 221 computing the new time from the current time, as edit_cmd
\* does on line 233
DeferTaskFromNow(s, id, minutes) ==
    Save([s EXCEPT !.obj[id].arrive_utc = clock + minutes])

\* line 221 of defer
DeferTask(s, id, minutes) ==
    Save([s EXCEPT !.obj[id].arrive_utc = @ + minutes])

\* What /sub defer answers, lines 218-222
DeferReply(id, delta, fl) ==
    IF id \notin tasks THEN "notfound"
    ELSE IF parse_delta(delta).err THEN "exc"
    ELSE IF DeferTask(Frame(fl), id, parse_delta(delta).minutes).exc THEN "exc"
    ELSE "ok"

\* /sub defer, lines 217-222
defer(id, delta, fl) ==
    /\ proc = "up"
    /\ LET pd == parse_delta(delta) IN
       IF id \in tasks /\ ~pd.err
       THEN /\ obj[id].arrive_utc + pd.minutes <= MaxArrive
            /\ CommitCmd(DeferTask(Frame(fl), id, pd.minutes))
       ELSE CommitCmd(Frame(fl))
    /\ UNCHANGED <<loop2, arg, ret, boots, clock, created, cancelOk, raised, startDue>>

\* lines 232-242 of edit_cmd, on the Task t
EditTask(t, duration, arrive, meta) ==
    LET timed == IF Truthy(duration)
                 THEN [t EXCEPT !.arrive_utc = clock + parse_delta(duration.v).minutes]
                 ELSE IF arrive.some
                 THEN [t EXCEPT !.arrive_utc = parse_arrive(arrive).t]
                 ELSE t
    IN  [timed EXCEPT
            !.fc = IF meta[1].some THEN normalize_fc(meta[1].v) ELSE @,
            !.boat = IF meta[2].some THEN normalize_boat(meta[2].v) ELSE @,
            !.note = IF meta[3].some THEN meta[3].v ELSE @]

\* lines 231-243 of edit_cmd once the arguments are accepted
EditSave(s, id, duration, arrive, meta) ==
    Save([s EXCEPT !.obj[id] = EditTask(@, duration, arrive, meta)])

\* What /sub edit answers, lines 229-244
EditReply(id, duration, arrive, meta, fl) ==
    IF id \notin tasks THEN "notfound"
    ELSE IF Truthy(duration) /\ parse_delta(duration.v).err THEN "exc"
    ELSE IF ~Truthy(duration) /\ arrive.some /\ parse_arrive(arrive).err
    THEN "badarrive"
    ELSE IF EditSave(Frame(fl), id, duration, arrive, meta).exc THEN "exc"
    ELSE "ok"

\* edit_cmd with lines 238-242 moved in front of the timestamp check of
\* lines 234-237: fc, boat and note are written before arrive is rejected
edit_cmd_MetaFirst(id, duration, arrive, meta, fl) ==
    /\ proc = "up"
    /\ IF id \in tasks /\ ~(Truthy(duration) /\ parse_delta(duration.v).err)
       THEN CommitCmd(EditSave(Frame(fl), id, duration,
                               IF parse_arrive(arrive).err THEN NoArrive
                               ELSE arrive, meta))
       ELSE CommitCmd(Frame(fl))
    /\ UNCHANGED <<loop2, arg, ret, boots, clock, created, cancelOk, raised, startDue>>

\* /sub edit, lines 227-244
edit_cmd(id, duration, arrive, meta, fl) ==
    /\ proc = "up"
    /\ IF EditReply(id, duration, arrive, meta, fl) \in {"ok", "exc"}
          /\ id \in tasks
          /\ ~(Truthy(duration) /\ parse_delta(duration.v).err)
       THEN CommitCmd(EditSave(Frame(fl), id, duration, arrive, meta))
       ELSE CommitCmd(Frame(fl))
    /\ UNCHANGED <<loop2, arg, ret, boots, clock, created, cancelOk, raised, startDue>>

\* time passes
ClockTick ==
    /\ clock < MaxTime
    /\ clock' = clock + 1
    /\ UNCHANGED <<loop2, arg, ret, boots, tasks, obj, disk, proc, pc, now, changed, lst, cur, created,
                   sunk, marked, cancelOk, lateSink, raised, startDue, flushes,
                   lastGood>>

\* no second schedule_runner task exists
NoLoop == [pc |-> "none", now |-> 0, changed |-> FALSE, lst |-> <<>>, cur |-> 0]

\* no text function is being called on its own
NoArg == [fn |-> "none", toks |-> <<>>, tail |-> <<>>, s |-> <<>>]
NoRet == [done |-> FALSE, err |-> FALSE, minutes |-> 0, s |-> <<>>]

\* ------------------------------------------------------ the specification
\* TaskStore.__init__ / load (lines 78-84) and on_ready (line 253): the file
\* holds what an earlier run saved; schedule_runner is in its first sleep.
Init ==
    /\ clock = 0
    /\ tasks \in SUBSET Ids
    /\ \E ch \in [Ids -> Channels], ar \in [Ids -> Times] :
          /\ obj = [i \in Ids |-> Task(i, GuildOf(i), ch[i], <<>>, <<>>, <<>>, ar[i])]
          /\ \A i \in Ids \ tasks : ch[i] = 1 /\ ar[i] = 0
    /\ disk = GoodFile(tasks, obj)
    /\ lastGood = Snapshot(tasks, obj)
    /\ proc = "up" /\ pc = "sleep"
    /\ now = 0 /\ changed = FALSE /\ lst = <<>> /\ cur = 0
    /\ created = 0
    /\ sunk = [i \in Ids |-> 0] /\ marked = [i \in Ids |-> 0]
    /\ cancelOk = {} /\ lateSink = {} /\ raised = {}
    /\ startDue = {} /\ flushes = 0 /\ boots = 1
    /\ loop2 = NoLoop /\ arg = NoArg /\ ret = NoRet

CmdIds == Ids

Next ==
    \/ ClockTick
    \/ TickStart("ok")
    \/ SinkReturn("ok")
    \/ SinkRaise
    \/ \E c \in AddCalls, tid \in CmdIds : add(c[1], c[2], c[3], c[4], tid)
    \/ \E g \in Guilds : list_cmd(g)
    \/ \E i \in CmdIds : cancel(i, "ok")
    \/ \E i \in CmdIds, d \in DeferArgs : defer(i, d, "ok")
    \/ \E i \in CmdIds, c \in EditCalls : edit_cmd(i, c[1], c[2], c[3], "ok")

\* the program with one scheduler loop, no crash and flushes that succeed
Spec == Init /\ [][Next]_vars

\* ---------------------------------------------------- crash and flush failure
\* the process is killed between two handlers
Crash ==
    /\ proc = "up"
    /\ boots < MaxBoots
    /\ proc' = "down"
    /\ UNCHANGED <<loop2, arg, ret, boots, clock, tasks, obj, disk, pc, now, changed, lst, cur, created,
                   sunk, marked, cancelOk, lateSink, raised, startDue, flushes,
                   lastGood>>

\* the process is started again: TaskStore.load (lines 80-83) reads the file,
\* on_ready starts schedule_runner; json.load raises on a truncated file and
\* the module never finishes loading.
Restart ==
    /\ proc = "down"
    /\ IF disk.ok
       THEN /\ proc' = "up"
            /\ tasks' = DOMAIN disk.snap
            /\ obj' = [i \in Ids |-> IF i \in DOMAIN disk.snap THEN disk.snap[i]
                                     ELSE Task(i, GuildOf(i), 1, <<>>, <<>>, <<>>, 0)]
       ELSE /\ proc' = "failed"
            /\ tasks' = {}
            /\ obj' = obj
    /\ pc' = "sleep" /\ now' = 0 /\ changed' = FALSE /\ lst' = <<>> /\ cur' = 0
    /\ created' = 0 /\ startDue' = {} /\ flushes' = 0
    /\ boots' = boots + 1
    /\ UNCHANGED <<loop2, arg, ret, clock, disk, sunk, marked, cancelOk, lateSink,
                   raised, lastGood>>

\* nothing of an earlier failed flush is left: file and index agree
InSync == disk.ok /\ disk.snap = Snapshot(tasks, obj)

\* what the file system may do to a command's save() when writes can fail
\* (one failure at a time: the next one comes after file and index agree)
FailModes == IF InSync THEN {"ok", "open", "write"} ELSE {"ok"}

\* what may happen in a handler's save() when the process can be killed
CrashModes == IF boots < MaxBoots THEN {"ok", "crash"} ELSE {"ok"}

NextFail ==
    \/ ClockTick
    \/ TickStart("ok")
    \/ SinkReturn("ok")
    \/ \E i \in CmdIds, fl \in FailModes : cancel(i, fl)
    \/ \E i \in CmdIds, d \in DeferArgs, fl \in FailModes : defer(i, d, fl)
    \/ \E i \in CmdIds, c \in EditCalls, fl \in FailModes :
          edit_cmd(i, c[1], c[2], c[3], fl)

\* the program when save() can raise inside a command
SpecFail == Init /\ [][NextFail]_vars

NextCrash ==
    \/ ClockTick
    \/ \E fl \in CrashModes : TickStart(fl)
    \/ \E fl \in CrashModes : SinkReturn(fl)
    \/ \E i \in CmdIds, fl \in CrashModes : cancel(i, fl)
    \/ \E i \in CmdIds, fl \in CrashModes : defer(i, <<"1">>, fl)
    \/ Crash
    \/ Restart

\* the program when the process can be killed and started again
SpecCrash == Init /\ [][NextCrash]_vars

\* ------------------------------------------------- on_ready fires once more
\* on_ready after a reconnect, line 253: client.loop.create_task starts one
\* more schedule_runner, which is ready to begin its first tick
on_ready ==
    /\ proc = "up"
    /\ loop2.pc = "none"
    /\ loop2' = [NoLoop EXCEPT !.pc = "sleep"]
    /\ UNCHANGED <<clock, tasks, obj, disk, proc, pc, now, changed, lst, cur,
                   created, sunk, marked, cancelOk, lateSink, raised, startDue,
                   flushes, lastGood, boots, arg, ret>>

\* what the second schedule_runner works on: the same store, its own locals
Frame2(fl) ==
    [Frame(fl) EXCEPT !.pc = loop2.pc, !.now = loop2.now,
                      !.changed = loop2.changed, !.lst = loop2.lst,
                      !.cur = loop2.cur]

\* the new state after the second schedule_runner ran to its next await
Commit2(r) ==
    /\ tasks' = r.tasks /\ obj' = r.obj /\ disk' = r.disk
    /\ lastGood' = r.lastGood
    /\ loop2' = [pc |-> r.pc, now |-> r.now, changed |-> r.changed,
                 lst |-> r.lst, cur |-> r.cur]
    /\ sunk' = r.sunk /\ marked' = r.marked /\ lateSink' = r.lateSink
    /\ proc' = IF r.exc /\ r.fl = "crash" THEN "down" ELSE proc
    /\ UNCHANGED <<pc, now, changed, lst, cur, flushes>>

\* the second schedule_runner wakes from its sleep: lines 108-110 and the loop
TickStart2(fl) ==
    /\ proc = "up" /\ loop2.pc = "sleep"
    /\ LET s0 == [Frame2(fl) EXCEPT !.now = clock, !.changed = FALSE]
       IN  Commit2(Loop(ListOf(tasks), s0, cancelOk))
    /\ UNCHANGED <<arg, ret, boots, clock, created, cancelOk, raised, startDue>>

\* send_arrival_notice returns in the second schedule_runner
SinkReturn2(fl) ==
    /\ proc = "up" /\ loop2.pc = "sink"
    /\ Commit2(Loop(loop2.lst,
                    Line116(MarkDone(Frame2(fl), loop2.cur), loop2.cur),
                    cancelOk))
    /\ UNCHANGED <<arg, ret, boots, clock, created, cancelOk, raised, startDue>>

NextReady ==
    \/ ClockTick
    \/ TickStart("ok")
    \/ SinkReturn("ok")
    \/ on_ready
    \/ TickStart2("ok")
    \/ SinkReturn2("ok")
    \/ \E i \in CmdIds : cancel(i, "ok")

\* the program when on_ready can fire a second time
SpecReady == Init /\ [][NextReady]_vars

\* -------------------------------------------- the text functions on their own
MaxTokens == 2

minute == <<"m", "i", "n", "u", "t", "e">>
minutes == <<"m", "i", "n", "u", "t", "e", "s">>

\* the duration texts tried: up to MaxTokens tokens of a digit run n, a unit u
\* and the separators sep that follow the token, then a digit run with no unit
DigitRuns == {<<"2">>, <<"1", "0">>}
Units == {<<"h">>, <<"m">>, <<"m", "i", "n">>, minute, minutes, <<"<fun>">>}
Separators == {<<>>, <<" ">>, <<":">>, <<"/">>, <<"+">>}
Tails == {<<>>, <<"5">>}
Tokens == [n : DigitRuns, u : Units, sep : Separators]
TokenSeqs == UNION {[1..k -> Tokens] : k \in 0..MaxTokens}

DurationArgs ==
    {[fn |-> "parse_delta", toks |-> t, tail |-> x, s |-> <<>>] :
        t \in TokenSeqs, x \in Tails}

\* the str passed to parse_delta for such an argument
RECURSIVE Render(_, _)
Render(toks, tail) ==
    IF toks = <<>> THEN tail
    ELSE LET t == Head(toks) IN
         t.n \o t.u
         \o (IF Len(toks) > 1 \/ tail # <<>> THEN t.sep ELSE <<>>)
         \o Render(Tail(toks), tail)

\* the fc texts tried: the prefixes of the two names (the empty one among
\* them), other spellings and texts that match nothing, bare and padded
FcWords ==
    {SubSeq(alexander, 1, n) : n \in 0..Len(alexander)}
    \cup {SubSeq(pandemonium, 1, n) : n \in 0..Len(pandemonium)}
    \cup {Alexander, Pandemonium, <<"A">>, <<"P", "a">>, <<"x">>,
          <<"a", "x">>, <<"a", " ", "l">>, alexander \o <<"x">>}

FcArgs ==
    {[fn |-> "normalize_fc", toks |-> <<>>, tail |-> <<>>, s |-> l \o w \o r] :
        w \in FcWords, l \in {<<>>, <<" ">>}, r \in {<<>>, <<" ">>}}

\* parse_delta (lines 37-56) called on the text of arg
ParseDelta ==
    /\ arg.fn = "parse_delta" /\ ~ret.done
    /\ LET pd == parse_delta(Render(arg.toks, arg.tail))
       IN  ret' = [done |-> TRUE, err |-> pd.err, minutes |-> pd.minutes,
                   s |-> <<>>]
    /\ UNCHANGED <<clock, tasks, obj, disk, proc, pc, now, changed, lst, cur,
                   created, sunk, marked, cancelOk, lateSink, raised, startDue,
                   flushes, lastGood, boots, loop2, arg>>

\* normalize_fc (lines 23-31) called on the text of arg
NormalizeFc ==
    /\ arg.fn = "normalize_fc" /\ ~ret.done
    /\ ret' = [done |-> TRUE, err |-> FALSE, minutes |-> 0,
               s |-> normalize_fc(arg.s)]
    /\ UNCHANGED <<clock, tasks, obj, disk, proc, pc, now, changed, lst, cur,
                   created, sunk, marked, cancelOk, lateSink, raised, startDue,
                   flushes, lastGood, boots, loop2, arg>>

\* no store and no scheduler: a text function is about to be called
InitText ==
    /\ arg \in DurationArgs \cup FcArgs
    /\ ret = NoRet
    /\ clock = 0 /\ tasks = {}
    /\ obj = [i \in Ids |-> Task(i, GuildOf(i), 1, <<>>, <<>>, <<>>, 0)]
    /\ disk = GoodFile(tasks, obj)
    /\ lastGood = Snapshot(tasks, obj)
    /\ proc = "up" /\ pc = "sleep"
    /\ now = 0 /\ changed = FALSE /\ lst = <<>> /\ cur = 0
    /\ created = 0
    /\ sunk = [i \in Ids |-> 0] /\ marked = [i \in Ids |-> 0]
    /\ cancelOk = {} /\ lateSink = {} /\ raised = {}
    /\ startDue = {} /\ flushes = 0 /\ boots = 1
    /\ loop2 = NoLoop

NextText ==
    \/ ParseDelta
    \/ NormalizeFc

\* parse_delta and normalize_fc as functions of their argument
SpecText == InitText /\ [][NextText]_vars

\* ------------------------------------------------------------ the claims
Delivering(i) == pc = "sink" /\ cur = i

\* C1: with one scheduler loop, no crash and every interleaving of ticks and
\* commands, send_arrival_notice is called at most once per task id,
\* done_arrive goes from false to true at most once, and a task whose
\* done_arrive is true is in no by_guild result.
C1_DeliveredAtMostOnce ==
    \A i \in Ids :
        /\ sunk[i] <= 1
        /\ marked[i] <= 1
        /\ obj[i].done_arrive => \A g \in Guilds : i \notin by_guild(g)

\* a task was notified and marked, and a later tick has started since
C1_Witness ==
    \E i \in Ids :
        /\ sunk[i] = 1 /\ marked[i] = 1 /\ obj[i].done_arrive
        /\ i \notin startDue /\ pc = "sink" /\ cur # i

\* C2: once cancel(id) has removed a task and answered with success, the sink
\* is never invoked for that task afterwards.
C2_NoSinkAfterCancel == lateSink = {}

\* C3: a tick delivering T and a cancel(T.id) that overlap have exactly one
\* outcome: never both a sink call for T and a successful cancel of T, and
\* never a sink call for T that returned with T left in the snapshot.
C3_ExactlyOneOutcome ==
    \A i \in Ids :
        sunk[i] > 0 =>
            /\ i \notin cancelOk
            /\ (~Delivering(i) /\ i \notin raised) => i \notin DOMAIN disk.snap

\* C4: a /sub add that answers with success has put the task it announces
\* into the store, undelivered and with the computed fields, and into the
\* snapshot.
C4_CreateStores ==
    [][\A c \in AddCalls, tid \in CmdIds :
          (add(c[1], c[2], c[3], c[4], tid) /\ AddReply(c[1], c[2], c[4]) = "ok")
          => /\ tid \in tasks'
             /\ obj'[tid] = AddTask(c[1], c[2], c[3], 1, tid)
             /\ disk'.ok /\ tid \in DOMAIN disk'.snap
             /\ disk'.snap[tid] = obj'[tid]]_vars

\* C5: when a tick ends, every task that was in the store and due when the
\* tick read the time, and was not cancelled, has been handed to the sink and
\* is gone from the index and from the snapshot.
C5_DueIsDeliveredByTickEnd ==
    [][((TickStart("ok") \/ SinkReturn("ok")) /\ pc' = "sleep")
       => \A i \in startDue' \ cancelOk' :
             /\ sunk'[i] + marked'[i] > 0
             /\ i \notin tasks'
             /\ i \notin DOMAIN disk'.snap]_vars

\* C6: a due task the tick has picked up is, once its sink call is over with
\* whatever outcome, marked delivered and out of the store, and its sink call
\* is not repeated.
C6_MarkedWhateverTheOutcome ==
    \A i \in Ids :
        ((sunk[i] > 0 \/ marked[i] > 0) /\ ~Delivering(i))
        => /\ obj[i].done_arrive
           /\ i \notin tasks
           /\ sunk[i] <= 1

\* C7: a sink call that raised does not stop the scheduler: the polling loop
\* is still running afterwards.
C7_LoopSurvivesFailure == raised # {} => pc \in {"sleep", "sink"}

\* C8: when flushes succeed, the snapshot holds the ids and field values of
\* the in-memory index whenever a command has answered and whenever the tick
\* is suspended or has ended.
C8_SnapshotEqualsIndex ==
    /\ disk.ok
    /\ disk.snap = Snapshot(tasks, obj)

\* a defer and an edit of one task have been flushed, and a tick has ended
\* after marking a task that was cancelled during its own sink call
C8_Witness ==
    /\ \E i \in tasks : obj[i].arrive_utc = MaxArrive /\ obj[i].fc = Alexander
    /\ \E i \in cancelOk : marked[i] = 1
    /\ pc = "sleep"

\* C9: a crash during save() never leaves a snapshot load() cannot read: the
\* file always holds a complete snapshot.
C9_SnapshotAlwaysReadable == disk.ok

\* C10: a flush that fails inside a command leaves nothing uncommitted in
\* memory: the in-memory index equals the last snapshot written completely.
C10_FailedFlushRolledBack == Snapshot(tasks, obj) = lastGood

\* C11: a /sub add whose generated id equals the id of a task in the store
\* is answered as a creation failure, and the task already stored under that
\* id stays as it was in the index and in the snapshot.
C11_CollisionIsCreationFailure ==
    [][\A c \in AddCalls, tid \in CmdIds :
          (add(c[1], c[2], c[3], c[4], tid) /\ tid \in tasks)
          => /\ AddReply(c[1], c[2], c[4]) # "ok"
             /\ tid \in tasks' /\ obj'[tid] = obj[tid]
             /\ disk' = disk]_vars

\* C12: a cancel, defer or edit that is rejected (unknown id, malformed
\* duration, malformed timestamp) changes no field of any task, adds and
\* removes no task and leaves the file as it was, also when the edit came
\* with fc, boat and note values: no step that changes the index, a task or
\* the file is the step of a rejected call.
C12_RejectedChangesNothing ==
    [][(tasks' # tasks \/ obj' # obj \/ disk' # disk)
       => /\ \A i \in CmdIds :
                CancelReply(i, "ok") # "ok" => ~cancel(i, "ok")
          /\ \A i \in CmdIds, d \in DeferArgs :
                DeferReply(i, d, "ok") # "ok" => ~defer(i, d, "ok")
          /\ \A i \in CmdIds, c \in EditCalls :
                EditReply(i, c[1], c[2], c[3], "ok") # "ok"
                => ~edit_cmd(i, c[1], c[2], c[3], "ok")]_vars

\* during the sink call of a stored task with no fc yet, an edit of it with a
\* malformed timestamp and fc, boat, note values has just been rejected (the
\* rejected call leaves the state it was made in), and so has a defer with a
\* malformed duration and a cancel of an id that is not stored
C12_Witness ==
    \E i \in tasks, j \in Ids \ tasks :
        /\ pc = "sink" /\ cur = i
        /\ EditReply(i, None, BadArrive, Meta1, "ok") = "badarrive"
        /\ obj[i].fc # normalize_fc(Meta1[1].v)
        /\ DeferReply(i, <<"x">>, "ok") = "exc"
        /\ CancelReply(j, "ok") = "notfound"

\* C13: a defer(id, delta) that answers with success on a task whose
\* arrive_utc is T leaves that task with arrive_utc = T + delta and its other
\* fields as they were, leaves every other task and the index as they were,
\* and has written the new value to the file; the current time and a tick in
\* progress make no difference.
C13_DeferAddsToArrive ==
    [][\A i \in CmdIds, d \in DeferArgs :
          (DeferReply(i, d, "ok") = "ok" /\ defer(i, d, "ok"))
          => /\ obj' = [obj EXCEPT ![i].arrive_utc = @ + parse_delta(d).minutes]
             /\ tasks' = tasks
             /\ disk'.ok /\ disk'.snap = Snapshot(tasks', obj')]_vars

\* at time 0, during a sink call, a stored task is due later than any time
\* the store was loaded with or an edit could have set: it was deferred, and
\* T + delta differs from now + delta
C13_Witness ==
    \E i \in tasks :
        /\ clock = 0 /\ pc = "sink"
        /\ obj[i].arrive_utc = MaxArrive
        /\ disk.snap[i].arrive_utc = MaxArrive

\* C17: nothing a command does takes effect between the moment a tick picks
\* a task as due and the moment it has removed and flushed it; and a task
\* whose arrive_utc a defer or edit has moved past the time of the scan that
\* picked it is still in the store, undelivered, when its sink call returns.
C17_TickAtomicForCommands ==
    [][/\ (pc = "sink" /\ pc' = "sink" /\ cur' = cur /\ lst' = lst)
          => UNCHANGED <<tasks, obj, disk>>
       /\ (SinkReturn("ok") /\ cur \in tasks /\ obj[cur].arrive_utc > now)
          => (cur \in tasks' /\ ~obj'[cur].done_arrive)]_vars

\* C18: a tick that ends has flushed the store exactly once if it marked or
\* removed a task, and not at all otherwise.
C18_OneFlushPerTick ==
    [][(pc' = "sleep" /\ (TickStart("ok") \/ SinkReturn("ok")))
       => flushes' = IF changed' THEN 1 ELSE 0]_vars

\* C19: when the sink is invoked for a task, the current time is at or after
\* the arrive_utc the task holds at that moment.
C19_NeverBeforeArrive ==
    [][\A i \in Ids :
          sunk'[i] > sunk[i]
          => /\ pc' = "sink" /\ cur' = i
             /\ clock' >= obj'[i].arrive_utc]_vars

\* a tick has ended that delivered one task and passed over another one,
\* which was due when the tick began and was moved to a later time during
\* the sink call of the first
C19_Witness ==
    \E i \in Ids, k \in tasks :
        /\ pc = "sleep" /\ sunk[i] = 1 /\ marked[i] = 1
        /\ k \in startDue /\ sunk[k] = 0 /\ obj[k].arrive_utc > now

\* C16: also when the process is killed anywhere in a tick and started again,
\* the sink is invoked at most once per task, and a task whose notice went
\* out before the kill is not pending in the store that load() rebuilt.
C16_OnceAcrossRestart ==
    \A i \in Ids :
        /\ sunk[i] <= 1
        /\ (boots > 1 /\ proc = "up" /\ sunk[i] > 0 /\ ~Delivering(i))
           => ~(i \in tasks /\ ~obj[i].done_arrive)

\* the minutes of the tokens of a duration text: 60 per hour of an h token
RECURSIVE TokenMinutes(_)
TokenMinutes(toks) ==
    IF toks = <<>> THEN 0
    ELSE (IF Head(toks).u = <<"h">> THEN 60 ELSE 1) * IntOf(Head(toks).n)
         + TokenMinutes(Tail(toks))

\* C14 as stated: for a text of <digits><unit> tokens with separators between
\* them and a digit run with no unit at its end, parse_delta returns the sum
\* of the tokens plus the trailing run as minutes, whatever unit precedes the
\* run and whatever the separators.
C14_TrailingRunIsMinutes ==
    (arg.fn = "parse_delta" /\ ret.done)
    => /\ ~ret.err
       /\ ret.minutes = TokenMinutes(arg.toks) + IntOf(arg.tail)

\* C14 amended: parse_delta returns the sum of the tokens, whatever the
\* separators, plus the trailing run as minutes when there is no token or the
\* last token is an h token; a trailing run after a minute token is ignored.
C14_TrailingRunAfterHours ==
    (arg.fn = "parse_delta" /\ ret.done)
    => /\ ~ret.err
       /\ ret.minutes =
             TokenMinutes(arg.toks)
             + (IF arg.toks = <<>> \/ arg.toks[Len(arg.toks)].u = <<"h">>
                THEN IntOf(arg.tail) ELSE 0)

\* parse_delta has returned for "10h:2minutes/5": two tokens, separators, and
\* a trailing run after a minute token
C14_Witness ==
    /\ ret.done /\ ~ret.err
    /\ arg.fn = "parse_delta"
    /\ Render(arg.toks, arg.tail)
       = <<"1", "0", "h", ":", "2">> \o minutes \o <<"/", "5">>
    /\ ret.minutes = 602

\* the label of a canonical name of FC_ALIASES
Label(canon) == IF canon = alexander THEN Alexander ELSE Pandemonium

\* the canonical names a normalized text equals, or has as an alias
Named(t) == {c \in {alexander, pandemonium} : t = c \/ t \in FC_ALIASES(c)}

\* the canonical names a normalized text is a non-empty prefix of
PrefixOf(t) ==
    {c \in {alexander, pandemonium} : t # <<>> /\ StartsWithAt(c, t, 0)}

\* C15: normalize_fc returns the label of a canonical name when the
\* normalized text equals the name or one of its aliases, or is a non-empty
\* prefix of exactly one name; any other text, one that normalizes to the
\* empty text included, is returned as it was given.
C15_LabelOnlyOnMatch ==
    (arg.fn = "normalize_fc" /\ ret.done)
    => LET t == Lower(Strip(Nfkc(arg.s))) IN
       ret.s = IF Named(t) # {} THEN Label(CHOOSE c \in Named(t) : TRUE)
               ELSE IF Cardinality(PrefixOf(t)) = 1
               THEN Label(CHOOSE c \in PrefixOf(t) : TRUE)
               ELSE arg.s

\* C20: there is never more than one schedule_runner, also after on_ready
\* has fired again, and so no task is handed to the sink by one loop while or
\* after another loop hands it to the sink.
C20_OneSchedulerLoop ==
    /\ loop2.pc = "none"
    /\ \A i \in Ids : sunk[i] <= 1

====
